---- MODULE Spec2Model ----
(***************************************************************************)
(* Model of the notebook's simulate(element, temperature, size,           *)
(* crystallize) function (src/main.ipynb, lines 52-111) and of the state  *)
(* it touches: the three lookup tables, the global sys.stdout, the four    *)
(* fixed-name files, and the locals of every invocation.                   *)
(*                                                                         *)
(* Representation of numbers.  The tables carry lengths in hundredths of   *)
(* an angstrom, masses in hundredths of a mass unit and epsilon in         *)
(* thousandths of an eV.  The lattice parameter is carried in thousandths  *)
(* of an angstrom, so that cutoff * 0.8 is exact for every table value.    *)
(* Temperatures are in whole kelvin and the size argument in tenths (so    *)
(* that int(size) has a fractional part to drop).  Arithmetic is exact:    *)
(* the rounding of the binary floats the program prints is not modelled.   *)
(* An argument is [num |-> n] for a number, [text |-> s] for a string that *)
(* is not the text of a number, PyNone for None and Inf for float('inf').  *)
(***************************************************************************)
EXTENDS Integers, Sequences, FiniteSets, TLC

\* Number of invocations a behaviour makes one after the other.
MaxCalls == 2

\* The threads of the threaded specification; each calls simulate once.
Threads == {"t1", "t2"}

\* "run 10000" (line 95) and "variable writefreq equal 100" (line 66).
RunSteps == 10000
writefreq == 100

Max(a, b) == IF a >= b THEN a ELSE b
Ids == 1 .. Max(MaxCalls, Cardinality(Threads))

None == [none |-> TRUE]
Num(n) == [num |-> n]
Text(s) == [text |-> s]
PyNone == [pynone |-> TRUE]
Inf == [inf |-> TRUE]
IsNum(v) == "num" \in DOMAIN v
IsText(v) == "text" \in DOMAIN v

(***************************************************************************)
(* The lookup tables of data/data.py (imported at line 48; the module is   *)
(* not part of the sources).  The recorded outputs of the notebook show    *)
(* calls for Au, Li and W returning a viewer, so these three are keys of   *)
(* all three tables.  Which other keys each table has is not known: Cu     *)
(* stands for an element that any of the tables may or may not have.  The  *)
(* values are representative.                                              *)
(***************************************************************************)
Known == {"Au", "Li", "W"}

LJ_PARAMS_data ==
    [e \in Known \cup {"Cu"} |->
        CASE e = "Au" -> [cutoff |-> 650, epsilon |-> 229, sigma |-> 265]
          [] e = "Li" -> [cutoff |-> 700, epsilon |-> 205, sigma |-> 285]
          [] e = "W"  -> [cutoff |-> 601, epsilon |-> 1050, sigma |-> 255]
          [] e = "Cu" -> [cutoff |-> 573, epsilon |-> 409, sigma |-> 234]]

ATOMIC_MASS_data ==
    [e \in Known \cup {"Cu"} |->
        CASE e = "Au" -> 19697
          [] e = "Li" -> 694
          [] e = "W"  -> 18384
          [] e = "Cu" -> 6355]

CRYSTAL_STRUCTURE_data ==
    [e \in Known \cup {"Cu"} |->
        CASE e = "Au" -> [symmetry |-> "fcc", lattice_param |-> 408]
          [] e = "Li" -> [symmetry |-> "bcc", lattice_param |-> 351]
          [] e = "W"  -> [symmetry |-> "bcc", lattice_param |-> 316]
          [] e = "Cu" -> [symmetry |-> "fcc", lattice_param |-> 361]]

Restrict(table, keys) == [k \in (DOMAIN table) \cap keys |-> table[k]]

\* What a table may be: the entries of the known keys, with or without
\* those of the other keys.
TableVariants(table) ==
    { Restrict(table, Known \cup D) : D \in SUBSET ((DOMAIN table) \ Known) }

(***************************************************************************)
(* Inputs of simulate: an element every table has and one a table may     *)
(* lack; the size 2.5 and a string that is not a number.                   *)
(***************************************************************************)
Elements == {"Au", "Cu"}
Temperatures == {Num(300), Num(2000)}
Sizes == {Num(25), Text("abc")}

\* Arguments of every kind: an element that a table may lack and one that
\* no table knows ("Xx"), with a temperature and a size (2.5, -2.5) that
\* convert to numbers, or fail to in each of the ways they can.
TableElements == {"Cu", "Xx"}
TableTemperatures == {Num(300), PyNone}
TableSizes == {Num(25), Num(-25), Text("abc"), Inf}

\* The threaded specification: calls for elements of the notebook, with
\* the default size.
ThreadElements == {"Au", "W"}
ThreadTemperatures == {Num(300)}
ThreadSizes == {Num(30)}
ThreadFlags == BOOLEAN

\* Step at which a run that diverges stops.
MidRunSteps == {5400}

VARIABLES
    LJ_PARAMS, ATOMIC_MASS, CRYSTAL_STRUCTURE,   \* the imported tables
    sys_stdout,          \* the stream sys.stdout is bound to
    files,               \* file name -> sequence of chunks it holds
    pc,                  \* invocation -> statement it is at
    args,                \* invocation -> its arguments
    old_stdout,          \* locals of simulate, per invocation
    lattice_parameter,
    l,
    setup,
    atoms,
    topology,
    traj,
    view,
    exc,                 \* invocation -> exception that ended it
    trace,               \* invocation -> statements executed so far
    entry_stdout,        \* invocation -> sys.stdout when it was called
    entry_files,         \* invocation -> files when it was called
    alone                \* invocation -> no other invocation overlapped it

tables == <<LJ_PARAMS, ATOMIC_MASS, CRYSTAL_STRUCTURE>>
locals ==
    <<old_stdout, lattice_parameter, l, setup, atoms, topology, traj, view>>
ghosts == <<entry_stdout, entry_files, alone>>
vars == <<tables, sys_stdout, files, pc, args, locals, exc, trace, ghosts>>

FileNames == {"stdout.txt", "initial.data", "initial.gro", "atom.lammpstrj"}
Artifacts == {"initial.data", "initial.gro", "atom.lammpstrj"}

(***************************************************************************)
(* Pure parts of simulate.                                                 *)
(***************************************************************************)

\* dict.get with a fallback entry instead of table[key].
LookupOrDefault(table, key) ==
    [ok |-> TRUE,
     val |-> IF key \in DOMAIN table
             THEN table[key]
             ELSE table[CHOOSE k \in DOMAIN table : TRUE]]

\* table[key]: the entry, or a KeyError when the key is missing.
Lookup(table, key) ==
    IF key \in DOMAIN table
    THEN [ok |-> TRUE, val |-> table[key]]
    ELSE [ok |-> FALSE]

\* The table lines 53-56 index: LJ_PARAMS when crystallizing, else
\* CRYSTAL_STRUCTURE.
SelectLookup(element, crystallize) ==
    IF crystallize
    THEN Lookup(LJ_PARAMS, element)
    ELSE Lookup(CRYSTAL_STRUCTURE, element)

\* The 0.8 factor left out.
LatticeParameterUnscaled(entry, crystallize) ==
    IF crystallize THEN entry.cutoff * 10 ELSE entry.lattice_param * 10

\* Lines 53-56: cutoff * 0.8 when crystallizing, else the tabulated value.
\* The result is in thousandths: hundredths * 0.8 = thousandths * 8.
LatticeParameter(entry, crystallize) ==
    IF crystallize THEN entry.cutoff * 8 ELSE entry.lattice_param * 10

\* Line 68: float(temperature).  A string that is no number raises
\* ValueError, None raises TypeError; infinity is a float.
PyFloat(v) ==
    IF IsNum(v) \/ v = Inf THEN [ok |-> TRUE, val |-> v]
    ELSE IF IsText(v) THEN [ok |-> FALSE, exc |-> "ValueError"]
    ELSE [ok |-> FALSE, exc |-> "TypeError"]

\* The temperature written as given.
VariableTUnscaled(t) == t

\* Line 68: float(temperature) * 10 (ten times infinity is infinity).
VariableT(t) == IF IsNum(t) THEN Num(t.num * 10) ELSE t

\* Line 69: int(size) truncates toward zero (size is in tenths).  A string
\* that is no number raises ValueError, None raises TypeError and infinity
\* raises OverflowError.
PyInt(v) ==
    IF IsNum(v)
    THEN [ok |-> TRUE,
          val |-> IF v.num >= 0 THEN v.num \div 10 ELSE -((-v.num) \div 10)]
    ELSE IF IsText(v) THEN [ok |-> FALSE, exc |-> "ValueError"]
    ELSE IF v = Inf THEN [ok |-> FALSE, exc |-> "OverflowError"]
    ELSE [ok |-> FALSE, exc |-> "TypeError"]

\* Lines 71-79 index all three tables while the f-string is evaluated.
SetupLookupsOk(element) ==
    /\ Lookup(CRYSTAL_STRUCTURE, element).ok
    /\ Lookup(LJ_PARAMS, element).ok
    /\ Lookup(ATOMIC_MASS, element).ok

\* Lines 60-93: the configuration text, one field per value it embeds
\* (t is float(temperature), n is int(size)).  Strings starting with "$"
\* are variable references the engine resolves.
SetupText(element, t, n, lattice) ==
    LET cs == Lookup(CRYSTAL_STRUCTURE, element).val
        lj == Lookup(LJ_PARAMS, element).val
        m  == Lookup(ATOMIC_MASS, element).val
    IN  [writefreq   |-> writefreq,
         T           |-> VariableT(t),
         size        |-> n,
         lattice1    |-> [symmetry |-> cs.symmetry, a |-> lattice],
         region_hi   |-> "${size}",
         lattice2    |-> [symmetry |-> cs.symmetry, a |-> lattice],
         pair_cutoff |-> lj.cutoff,
         epsilon     |-> lj.epsilon,
         sigma       |-> lj.sigma,
         mass        |-> m,
         velocity_T  |-> "$T",
         nvt_Tstart  |-> "$T",
         nvt_Tstop   |-> "$T",
         dump_every  |-> "${writefreq}",
         dump_file   |-> "atom.lammpstrj",
         data_file   |-> "initial.data"]

\* The engine's substitution of a variable reference of the text.
Subst(text, ref) ==
    CASE ref = "$T"           -> text.T
      [] ref = "${size}"      -> text.size
      [] ref = "${writefreq}" -> text.writefreq

\* The engine instance after l.commands_string(setup) (line 94); dumped is
\* the number of frames it has written to its dump file.
Configured(text) ==
    [lattice     |-> text.lattice2,
     box_lattice |-> text.lattice1,
     size        |-> Subst(text, text.region_hi),
     pair_cutoff |-> text.pair_cutoff,
     epsilon     |-> text.epsilon,
     sigma       |-> text.sigma,
     mass        |-> text.mass,
     velocity_T  |-> Subst(text, text.velocity_T),
     nvt_Tstart  |-> Subst(text, text.nvt_Tstart),
     nvt_Tstop   |-> Subst(text, text.nvt_Tstop),
     dump_every  |-> Subst(text, text.dump_every),
     dump_file   |-> text.dump_file,
     data_file   |-> text.data_file,
     steps       |-> 0,
     dumped      |-> 0]

\* The engine rejects a region "block 0 ${size} ..." that has no volume,
\* and a variable T that is not a number.
Accepts(text) ==
    /\ Subst(text, text.region_hi) >= 1
    /\ IsNum(Subst(text, text.velocity_T))

\* What the engine writes about the simulated system.
Structure(eng) ==
    [symmetry |-> eng.lattice.symmetry, a |-> eng.lattice.a,
     size |-> eng.size, mass |-> eng.mass]

\* A file of the given kind; torn when what another writer wrote is
\* mixed into it.
DataChunk(i, eng) ==
    [by |-> i, origin |-> i, what |-> "lammps-data", sys |-> Structure(eng),
     torn |-> FALSE]

\* A dump file holding the given number of frames of engine i; torn when
\* frames of another writer are mixed into it.
TrajChunk(i, eng, frames, torn) ==
    [by |-> i, origin |-> i, what |-> "lammpstrj", sys |-> Structure(eng),
     frames |-> frames, torn |-> torn]

GroChunk(i, a) ==
    [by |-> i, origin |-> a.origin, what |-> "gromacs", sys |-> a.sys,
     torn |-> FALSE]

\* The file opened without truncation (mode 'a').
OpenA(content) == content

\* A file opened for writing is truncated (mode 'w', line 58; the engine's
\* dump and write_data, lines 85 and 92; atoms.write, line 101).
OpenW(content) == <<>>

\* A writer writes a file it has opened, through its own handle and from
\* the start.  The file is intact only if it was still empty, as the
\* writer left it when opening it; otherwise another writer has written it
\* in between and the two contents are mixed.
WriteOpened(content, chunk) ==
    <<[chunk EXCEPT !.torn = (content # <<>>)]>>

\* The engine writes the frames up to a step through its own handle on the
\* dump file, at its own offset.  The file is intact only if it held
\* exactly what this engine had written since it opened it; otherwise
\* another writer has truncated or written it in between and the frames
\* are mixed.
DumpWrite(content, i, eng, step) ==
    LET before == IF eng.dumped = 0 THEN <<>>
                  ELSE <<TrajChunk(i, eng, eng.dumped, FALSE)>>
    IN  <<TrajChunk(i, eng, step \div eng.dump_every + 1, content # before)>>

\* The redirection opening one of the artifact files instead.
StdoutPathClobber == "initial.data"

\* Line 58: the file sys.stdout is redirected to.
StdoutPath == "stdout.txt"

\* Lines 103-109: the viewer with its fixed style, clipping and centering.
Viewer(t) ==
    [traj            |-> t,
     representations |-> <<[type |-> "spacefill", selection |-> "all",
                            color |-> "cyan", radius |-> 5]>>,
     parameters      |-> [clipNear |-> 0, clipFar |-> 100, clipDist |-> 1],
     centered        |-> TRUE]

\* The artifact files read before the run command.
SuccReadBeforeRun(stage) ==
    CASE stage = "select"         -> "save_stdout"
      [] stage = "save_stdout"    -> "open_stdout"
      [] stage = "open_stdout"    -> "bind_stdout"
      [] stage = "bind_stdout"    -> "lammps"
      [] stage = "lammps"         -> "setup"
      [] stage = "setup"          -> "submit"
      [] stage = "submit"         -> "read_data"
      [] stage = "read_data"      -> "run"
      [] stage = "run"            -> "write_gro"
      [] stage = "write_gro"      -> "load_traj"
      [] stage = "load_traj"      -> "show_view"
      [] stage = "show_view"      -> "restore_stdout"
      [] stage = "restore_stdout" -> "return"
      [] stage = "return"         -> "returned"

\* Lines 53-111 are one straight line: the statement after each statement
\* (line 58 is two steps: open() and the assignment).
Succ(stage) ==
    CASE stage = "select"         -> "save_stdout"
      [] stage = "save_stdout"    -> "open_stdout"
      [] stage = "open_stdout"    -> "bind_stdout"
      [] stage = "bind_stdout"    -> "lammps"
      [] stage = "lammps"         -> "setup"
      [] stage = "setup"          -> "submit"
      [] stage = "submit"         -> "run"
      [] stage = "run"            -> "read_data"
      [] stage = "read_data"      -> "write_gro"
      [] stage = "write_gro"      -> "load_traj"
      [] stage = "load_traj"      -> "show_view"
      [] stage = "show_view"      -> "restore_stdout"
      [] stage = "restore_stdout" -> "return"
      [] stage = "return"         -> "returned"

\* A failed engine call swallowed (except: pass).
AfterEngineCallSwallowed(stage, ok) == Succ(stage)

\* Lines 94-95 have no try/except: a failed engine call ends the invocation.
AfterEngineCall(stage, ok) == IF ok THEN Succ(stage) ELSE "raised"

Ended == {"returned", "raised"}
Active(i) == pc[i] \notin ({"idle"} \cup Ended)

(***************************************************************************)
(* Initial states: the first code cell has run.  Lines 38-39 leave         *)
(* sys.stdout bound to a stdout.txt opened by the cell itself (opener 0),  *)
(* the output of the shell command of line 40 has gone into that file, and *)
(* the cell never rebinds sys.stdout.  No invocation has been made; the    *)
(* working directory holds either no artifact file or those an earlier     *)
(* session left.                                                           *)
(***************************************************************************)
Leftover(what) ==
    [by |-> 0, origin |-> 0, what |-> what,
     sys |-> [symmetry |-> "fcc", a |-> 4080, size |-> 3, mass |-> 19697],
     torn |-> FALSE]

LeftoverFiles ==
    [f \in FileNames |->
        CASE f = "stdout.txt"     -> <<[by |-> 0, origin |-> 0, what |-> "pip"]>>
          [] f = "initial.data"   -> <<Leftover("lammps-data")>>
          [] f = "initial.gro"    -> <<Leftover("gromacs")>>
          [] f = "atom.lammpstrj" ->
                <<Leftover("lammpstrj") @@ [frames |-> 101]>>]

CleanFiles ==
    [f \in FileNames |->
        IF f = "stdout.txt" THEN LeftoverFiles[f] ELSE <<>>]

InitRest ==
    /\ sys_stdout = [opener |-> 0, path |-> "stdout.txt"]
    /\ files \in {CleanFiles, LeftoverFiles}
    /\ pc = [i \in Ids |-> "idle"]
    /\ args = [i \in Ids |-> None]
    /\ old_stdout = [i \in Ids |-> None]
    /\ lattice_parameter = [i \in Ids |-> 0]
    /\ l = [i \in Ids |-> None]
    /\ setup = [i \in Ids |-> None]
    /\ atoms = [i \in Ids |-> None]
    /\ topology = [i \in Ids |-> None]
    /\ traj = [i \in Ids |-> None]
    /\ view = [i \in Ids |-> None]
    /\ exc = [i \in Ids |-> "none"]
    /\ trace = [i \in Ids |-> <<>>]
    /\ entry_stdout = [i \in Ids |-> None]
    /\ entry_files = [i \in Ids |-> CleanFiles]
    /\ alone = [i \in Ids |-> TRUE]

\* The tables are inputs: each holds the known keys and may hold others.
Init ==
    /\ LJ_PARAMS \in TableVariants(LJ_PARAMS_data)
    /\ ATOMIC_MASS \in TableVariants(ATOMIC_MASS_data)
    /\ CRYSTAL_STRUCTURE \in TableVariants(CRYSTAL_STRUCTURE_data)
    /\ InitRest

\* The tables with the entries of the notebook's elements only; simulate
\* reads no entry but that of its element.
InitKnown ==
    /\ LJ_PARAMS = Restrict(LJ_PARAMS_data, Known)
    /\ ATOMIC_MASS = Restrict(ATOMIC_MASS_data, Known)
    /\ CRYSTAL_STRUCTURE = Restrict(CRYSTAL_STRUCTURE_data, Known)
    /\ InitRest

(***************************************************************************)
(* Statements of simulate.                                                 *)
(***************************************************************************)
Advance(i, stage, event) ==
    /\ pc' = [pc EXCEPT ![i] = stage]
    /\ trace' = [trace EXCEPT ![i] = Append(@, event)]

Raise(i, event, kind) ==
    /\ Advance(i, "raised", event)
    /\ exc' = [exc EXCEPT ![i] = kind]

\* Line 52: the call binds the arguments.
Enter(i, element, temperature, size, crystallize) ==
    /\ pc[i] = "idle"
    /\ \A j \in Ids : j < i => pc[j] # "idle"
    /\ args' = [args EXCEPT ![i] =
                  [element |-> element, temperature |-> temperature,
                   size |-> size, crystallize |-> crystallize]]
    /\ pc' = [pc EXCEPT ![i] = "select"]
    /\ alone' = [j \in Ids |->
                   IF j = i THEN \A k \in Ids \ {i} : ~Active(k)
                   ELSE IF Active(j) THEN FALSE ELSE alone[j]]
    /\ UNCHANGED <<tables, sys_stdout, files, locals, exc, trace>>

\* A notebook cell calls simulate; the kernel runs one cell at a time.
\* entry_stdout and entry_files remember what the call found.
Call(i) ==
    /\ i <= MaxCalls
    /\ \A j \in Ids : ~Active(j)
    /\ \E e \in Elements, t \in Temperatures, s \in Sizes, c \in BOOLEAN :
          Enter(i, e, t, s, c)
    /\ entry_stdout' = [entry_stdout EXCEPT ![i] = sys_stdout]
    /\ entry_files' = [entry_files EXCEPT ![i] = files]

\* A notebook cell calls simulate while the tables may lack entries.
TableCall(i) ==
    /\ i <= MaxCalls
    /\ \A j \in Ids : ~Active(j)
    /\ \E e \in TableElements, t \in TableTemperatures,
          s \in TableSizes, c \in BOOLEAN :
          Enter(i, e, t, s, c)
    /\ entry_stdout' = [entry_stdout EXCEPT ![i] = sys_stdout]
    /\ entry_files' = [entry_files EXCEPT ![i] = files]

\* A thread calls simulate, while the other thread may be inside it.
ThreadCall(i) ==
    /\ i <= Cardinality(Threads)
    /\ \E e \in ThreadElements, t \in ThreadTemperatures,
          s \in ThreadSizes, c \in ThreadFlags :
          Enter(i, e, t, s, c)
    /\ UNCHANGED <<entry_stdout, entry_files>>

\* Lines 53-56.
Select(i) ==
    /\ pc[i] = "select"
    /\ LET r == SelectLookup(args[i].element, args[i].crystallize) IN
         IF r.ok
         THEN /\ lattice_parameter' =
                   [lattice_parameter EXCEPT ![i] =
                      LatticeParameter(r.val, args[i].crystallize)]
              /\ Advance(i, Succ("select"), "select")
              /\ UNCHANGED exc
         ELSE /\ Raise(i, "select", "KeyError")
              /\ UNCHANGED lattice_parameter
    /\ UNCHANGED <<tables, sys_stdout, files, args, old_stdout, l, setup,
                   atoms, topology, traj, view, ghosts>>

\* Line 57: old_stdout = sys.stdout.
SaveStdout(i) ==
    /\ pc[i] = "save_stdout"
    /\ old_stdout' = [old_stdout EXCEPT ![i] = sys_stdout]
    /\ Advance(i, Succ("save_stdout"), "save_stdout")
    /\ UNCHANGED <<tables, sys_stdout, files, args, lattice_parameter, l,
                   setup, atoms, topology, traj, view, exc, ghosts>>

\* Line 58, right-hand side: open('stdout.txt', 'w') truncates the file.
OpenStdout(i) ==
    /\ pc[i] = "open_stdout"
    /\ files' = [files EXCEPT ![StdoutPath] = OpenW(@)]
    /\ Advance(i, Succ("open_stdout"), "open_stdout")
    /\ UNCHANGED <<tables, sys_stdout, args, locals, exc, ghosts>>

\* Line 58, assignment: sys.stdout is bound to the stream just opened.
BindStdout(i) ==
    /\ pc[i] = "bind_stdout"
    /\ sys_stdout' = [opener |-> i, path |-> StdoutPath]
    /\ Advance(i, Succ("bind_stdout"), "bind_stdout")
    /\ UNCHANGED <<tables, files, args, locals, exc, ghosts>>

\* Line 59: a fresh engine instance, nothing configured.
NewEngine(i) ==
    /\ pc[i] = "lammps"
    /\ l' = [l EXCEPT ![i] = [configured |-> FALSE, error |-> FALSE]]
    /\ Advance(i, Succ("lammps"), "lammps")
    /\ UNCHANGED <<tables, sys_stdout, files, args, old_stdout,
                   lattice_parameter, setup, atoms, topology, traj, view, exc,
                   ghosts>>

\* Lines 60-93: the f-string is evaluated left to right: float(temperature)
\* (line 68), int(size) (line 69), then the table lookups (lines 71-79).
\* The first expression that fails raises.
BuildSetup(i) ==
    /\ pc[i] = "setup"
    /\ LET t == PyFloat(args[i].temperature)
           n == PyInt(args[i].size)
       IN  IF ~t.ok
           THEN /\ Raise(i, "setup", t.exc)
                /\ UNCHANGED setup
           ELSE IF ~n.ok
           THEN /\ Raise(i, "setup", n.exc)
                /\ UNCHANGED setup
           ELSE IF ~SetupLookupsOk(args[i].element)
           THEN /\ Raise(i, "setup", "KeyError")
                /\ UNCHANGED setup
           ELSE /\ setup' = [setup EXCEPT ![i] =
                               SetupText(args[i].element, t.val, n.val,
                                         lattice_parameter[i])]
                /\ Advance(i, Succ("setup"), "setup")
                /\ UNCHANGED exc
    /\ UNCHANGED <<tables, sys_stdout, files, args, old_stdout,
                   lattice_parameter, l, atoms, topology, traj, view, ghosts>>

\* Line 94, start of l.commands_string(setup): the call blocks while the
\* engine processes the text.  It either rejects the text and raises (it
\* always rejects a region without volume), or takes the configuration.
SubmitConfig(i) ==
    /\ pc[i] = "submit"
    /\ \E ok \in BOOLEAN :
         /\ ok => Accepts(setup[i])
         /\ IF ok
            THEN /\ l' = [l EXCEPT ![i] =
                            [configured |-> TRUE, error |-> FALSE]
                               @@ Configured(setup[i])]
                 /\ Advance(i, "submit_dump", "submit")
                 /\ UNCHANGED exc
            ELSE /\ l' = [l EXCEPT ![i].error = TRUE]
                 /\ Advance(i, AfterEngineCall("submit", FALSE), "submit")
                 /\ exc' = [exc EXCEPT ![i] = "EngineError"]
    /\ UNCHANGED <<tables, sys_stdout, files, args, old_stdout,
                   lattice_parameter, setup, atoms, topology, traj, view,
                   ghosts>>

\* Line 94, the write_data directive (line 92) initialises the system,
\* which opens, and so truncates, the file of the dump directive (line 85).
SubmitOpenDump(i) ==
    /\ pc[i] = "submit_dump"
    /\ files' = [files EXCEPT ![l[i].dump_file] = OpenW(@)]
    /\ pc' = [pc EXCEPT ![i] = "submit_open_data"]
    /\ UNCHANGED <<tables, sys_stdout, args, locals, exc, trace, ghosts>>

\* Line 94, the write_data directive opens, and so truncates, initial.data.
SubmitOpenData(i) ==
    /\ pc[i] = "submit_open_data"
    /\ files' = [files EXCEPT ![l[i].data_file] = OpenW(@)]
    /\ pc' = [pc EXCEPT ![i] = "submit_write_data"]
    /\ UNCHANGED <<tables, sys_stdout, args, locals, exc, trace, ghosts>>

\* Line 94, the write_data directive writes initial.data, and the call
\* returns.
SubmitWriteData(i) ==
    /\ pc[i] = "submit_write_data"
    /\ files' = [files EXCEPT ![l[i].data_file] =
                   WriteOpened(@, DataChunk(i, l[i]))]
    /\ pc' = [pc EXCEPT ![i] = AfterEngineCall("submit", TRUE)]
    /\ UNCHANGED <<tables, sys_stdout, args, locals, exc, trace, ghosts>>

\* Line 95, start of l.command("run 10000").  An engine that holds no
\* configuration rejects the command; otherwise the run starts.
RunBegin(i) ==
    /\ pc[i] = "run"
    /\ IF l[i].configured
       THEN /\ Advance(i, "running", "run")
            /\ UNCHANGED <<l, exc>>
       ELSE /\ l' = [l EXCEPT ![i].error = TRUE]
            /\ Advance(i, AfterEngineCall("run", FALSE), "run")
            /\ exc' = [exc EXCEPT ![i] = "EngineError"]
    /\ UNCHANGED <<tables, sys_stdout, files, args, old_stdout,
                   lattice_parameter, setup, atoms, topology, traj, view,
                   ghosts>>

\* Line 95, the run itself: the call blocks while the engine integrates
\* and writes a frame every writefreq steps.  The frames up to a later
\* step reach the file; at the last step the call returns, and at an
\* earlier one the run may diverge and the call raise.
RunFrames(i) ==
    /\ pc[i] = "running"
    /\ \E step \in MidRunSteps \cup {RunSteps}, ok \in BOOLEAN :
         /\ step \div l[i].dump_every + 1 > l[i].dumped
         /\ (step = RunSteps) => ok
         /\ files' = [files EXCEPT ![l[i].dump_file] =
                        DumpWrite(@, i, l[i], step)]
         /\ l' = [l EXCEPT ![i].steps = step,
                           ![i].dumped = step \div l[i].dump_every + 1,
                           ![i].error = ~ok]
         /\ pc' = [pc EXCEPT ![i] =
                     IF step = RunSteps THEN AfterEngineCall("run", TRUE)
                     ELSE IF ok THEN "running"
                     ELSE AfterEngineCall("run", FALSE)]
         /\ exc' = [exc EXCEPT ![i] = IF ok THEN @ ELSE "EngineError"]
    /\ UNCHANGED <<tables, sys_stdout, args, old_stdout, lattice_parameter,
                   setup, atoms, topology, traj, view, trace, ghosts>>

\* Line 100: atoms = read("initial.data", format="lammps-data").  An empty
\* file does not parse; a file mixed from two writers may or may not.
ReadData(i) ==
    /\ pc[i] = "read_data"
    /\ \E parses \in BOOLEAN :
         IF /\ files["initial.data"] # <<>>
            /\ Head(files["initial.data"]).torn => parses
         THEN /\ atoms' = [atoms EXCEPT ![i] = Head(files["initial.data"])]
              /\ Advance(i, Succ("read_data"), "read_data")
              /\ UNCHANGED exc
         ELSE /\ Raise(i, "read_data", "ReadError")
              /\ UNCHANGED atoms
    /\ UNCHANGED <<tables, sys_stdout, files, args, old_stdout,
                   lattice_parameter, l, setup, topology, traj, view, ghosts>>

\* Line 101, start of atoms.write("initial.gro", format="gromacs"): the
\* file is opened, and so truncated.
OpenGro(i) ==
    /\ pc[i] = "write_gro"
    /\ files' = [files EXCEPT !["initial.gro"] = OpenW(@)]
    /\ Advance(i, "writing_gro", "write_gro")
    /\ UNCHANGED <<tables, sys_stdout, args, locals, exc, ghosts>>

\* Line 101, the structure is written and the call returns.
WriteGro(i) ==
    /\ pc[i] = "writing_gro"
    /\ files' = [files EXCEPT !["initial.gro"] =
                   WriteOpened(@, GroChunk(i, atoms[i]))]
    /\ pc' = [pc EXCEPT ![i] = Succ("write_gro")]
    /\ UNCHANGED <<tables, sys_stdout, args, locals, exc, trace, ghosts>>

\* Atoms of a system: a cubic box of size^3 cells, four atoms to an fcc
\* cell and two to a bcc cell.
NumAtoms(s) ==
    (IF s.symmetry = "fcc" THEN 4 ELSE 2) * s.size * s.size * s.size

\* Line 102, start of md.load("atom.lammpstrj", top="initial.gro"): the
\* topology is read from initial.gro.  An empty file does not parse; a
\* file mixed from two writers may or may not.
LoadTop(i) ==
    /\ pc[i] = "load_traj"
    /\ \E parses \in BOOLEAN :
         IF /\ files["initial.gro"] # <<>>
            /\ Head(files["initial.gro"]).torn => parses
         THEN /\ topology' = [topology EXCEPT ![i] =
                                Head(files["initial.gro"])]
              /\ Advance(i, "loading_traj", "load_traj")
              /\ UNCHANGED exc
         ELSE /\ Raise(i, "load_traj", "LoadError")
              /\ UNCHANGED topology
    /\ UNCHANGED <<tables, sys_stdout, files, args, old_stdout,
                   lattice_parameter, l, setup, atoms, traj, view, ghosts>>

\* Whether md.load can build a trajectory: the dump file holds frames, and
\* they have as many atoms as the topology.  Frames mixed from two writers
\* may or may not parse.
Loadable(xyz, top, parses) ==
    /\ xyz # <<>>
    /\ Head(xyz).frames >= 1
    /\ Head(xyz).torn => parses
    /\ NumAtoms(Head(xyz).sys) = NumAtoms(top.sys)

\* Line 102, the frames are read from atom.lammpstrj and the call returns.
LoadTraj(i) ==
    /\ pc[i] = "loading_traj"
    /\ \E parses \in BOOLEAN :
         IF Loadable(files["atom.lammpstrj"], topology[i], parses)
         THEN /\ traj' = [traj EXCEPT ![i] =
                            [xyz |-> Head(files["atom.lammpstrj"]),
                             top |-> topology[i]]]
              /\ pc' = [pc EXCEPT ![i] = Succ("load_traj")]
              /\ UNCHANGED exc
         ELSE /\ pc' = [pc EXCEPT ![i] = "raised"]
              /\ exc' = [exc EXCEPT ![i] = "LoadError"]
              /\ UNCHANGED traj
    /\ UNCHANGED <<tables, sys_stdout, files, args, old_stdout,
                   lattice_parameter, l, setup, atoms, topology, view,
                   trace, ghosts>>

\* Lines 103-109: the viewer is built, styled and centered.
ShowView(i) ==
    /\ pc[i] = "show_view"
    /\ view' = [view EXCEPT ![i] = Viewer(traj[i])]
    /\ Advance(i, Succ("show_view"), "show_view")
    /\ UNCHANGED <<tables, sys_stdout, files, args, old_stdout,
                   lattice_parameter, l, setup, atoms, topology, traj, exc,
                   ghosts>>

\* Line 110: sys.stdout = old_stdout.
RestoreStdout(i) ==
    /\ pc[i] = "restore_stdout"
    /\ sys_stdout' = old_stdout[i]
    /\ Advance(i, Succ("restore_stdout"), "restore_stdout")
    /\ UNCHANGED <<tables, files, args, locals, exc, ghosts>>

\* Line 111: return view.
Return(i) ==
    /\ pc[i] = "return"
    /\ Advance(i, Succ("return"), "return")
    /\ UNCHANGED <<tables, sys_stdout, files, args, locals, exc, ghosts>>

Step(i) ==
    \/ Select(i)
    \/ SaveStdout(i)
    \/ OpenStdout(i)
    \/ BindStdout(i)
    \/ NewEngine(i)
    \/ BuildSetup(i)
    \/ SubmitConfig(i)
    \/ SubmitOpenDump(i)
    \/ SubmitOpenData(i)
    \/ SubmitWriteData(i)
    \/ RunBegin(i)
    \/ RunFrames(i)
    \/ ReadData(i)
    \/ OpenGro(i)
    \/ WriteGro(i)
    \/ LoadTop(i)
    \/ LoadTraj(i)
    \/ ShowView(i)
    \/ RestoreStdout(i)
    \/ Return(i)

\* The notebook: cells call simulate one after the other.
Next == \E i \in Ids : Call(i) \/ Step(i)

Spec == Init /\ [][Next]_vars

\* The notebook calling simulate with arguments of every kind.
NextTables == \E i \in Ids : TableCall(i) \/ Step(i)

SpecTables == Init /\ [][NextTables]_vars

\* simulate called from two threads: their invocations interleave
\* statement by statement, and inside the blocking engine calls.
NextThreads == \E i \in Ids : ThreadCall(i) \/ Step(i)

SpecThreads == InitKnown /\ [][NextThreads]_vars

(***************************************************************************)
(* Properties.                                                             *)
(***************************************************************************)
Range(seq) == { seq[k] : k \in DOMAIN seq }
Count(seq, e) == Cardinality({ k \in DOMAIN seq : seq[k] = e })
Called(i) == pc[i] # "idle"
IsLatest(i) == Called(i) /\ \A j \in Ids : j > i => ~Called(j)
Missing(element) ==
    \/ element \notin DOMAIN LJ_PARAMS
    \/ element \notin DOMAIN ATOMIC_MASS
    \/ element \notin DOMAIN CRYSTAL_STRUCTURE
BeforeSubmit ==
    {"select", "save_stdout", "open_stdout", "bind_stdout", "lammps",
     "setup", "raised"}

\* C1: whatever way an invocation of simulate ends (return or exception),
\* sys.stdout is afterwards the stream it was when the invocation began.
C1_StdoutRestoredHoweverCallEnds ==
    \A i \in Ids :
        (pc[i] \in Ended /\ IsLatest(i)) => sys_stdout = entry_stdout[i]

\* The lattice parameter the arguments of invocation i call for, read from
\* the tables (a is in thousandths, the tables in hundredths): 0.8 times
\* the cutoff when crystallizing, else the tabulated value.
IsExpectedLattice(i, a) ==
    IF args[i].crystallize
    THEN a = 8 * LJ_PARAMS[args[i].element].cutoff
    ELSE a = 10 * CRYSTAL_STRUCTURE[args[i].element].lattice_param

WithoutLattice(text) == [text EXCEPT !.lattice1.a = 0, !.lattice2.a = 0]

OnlyFlagDiffers(i, j) ==
    /\ args[i] # None
    /\ args[j] # None
    /\ args[i].crystallize # args[j].crystallize
    /\ args[i].element = args[j].element
    /\ args[i].temperature = args[j].temperature
    /\ args[i].size = args[j].size

\* C2: the lattice parameter of the configuration is cutoff * 0.8 when
\* crystallize is true and the tabulated lattice_param when it is false, in
\* both lattice directives; two invocations that differ only in the flag
\* build texts that agree on everything but the lattice parameter.
C2_CrystallizeSelectsLattice ==
    /\ \A i \in Ids :
          setup[i] # None =>
             /\ IsExpectedLattice(i, lattice_parameter[i])
             /\ IsExpectedLattice(i, setup[i].lattice1.a)
             /\ IsExpectedLattice(i, setup[i].lattice2.a)
    /\ \A i, j \in Ids :
          (setup[i] # None /\ setup[j] # None /\ OnlyFlagDiffers(i, j)) =>
             WithoutLattice(setup[i]) = WithoutLattice(setup[j])

C2_Witness ==
    \E i, j \in Ids :
        /\ setup[i] # None
        /\ setup[j] # None
        /\ OnlyFlagDiffers(i, j)
        /\ args[i].crystallize
        /\ args[i].element = "Cu"
        /\ setup[i].lattice1.a = 4584
        /\ setup[j].lattice1.a = 3610

\* The error the conversions of lines 68-69 raise for the arguments of
\* invocation i: that of float(temperature) if it fails, else that of
\* int(size).
ConversionError(i) ==
    LET t == args[i].temperature
        n == args[i].size
    IN  CASE IsText(t) -> "ValueError"
          [] t = PyNone -> "TypeError"
          [] IsText(n) -> "ValueError"
          [] n = PyNone -> "TypeError"
          [] n = Inf -> "OverflowError"
          [] OTHER -> "none"

\* C3: an invocation whose element is missing from any of the three tables
\* never gets past building the configuration, builds no text and no
\* viewer and never returns, whatever crystallize is; with a temperature
\* and a size that are numbers, as the function requires, it ends with a
\* KeyError.  (With an argument that does not convert it also ends with a
\* KeyError if the element is missing from the table crystallize selects,
\* and otherwise with the error of the conversion, which comes first.)
C3_MissingElementRaisesLookupError ==
    \A i \in Ids :
        (args[i] # None /\ Missing(args[i].element)) =>
            /\ pc[i] \in BeforeSubmit
            /\ setup[i] = None
            /\ view[i] = None
            /\ pc[i] \in Ended =>
                  IF \/ ConversionError(i) = "none"
                     \/ args[i].element \notin
                           DOMAIN (IF args[i].crystallize THEN LJ_PARAMS
                                   ELSE CRYSTAL_STRUCTURE)
                  THEN exc[i] = "KeyError"
                  ELSE exc[i] = ConversionError(i)

C3_Witness ==
    \E i, j \in Ids :
        /\ pc[i] = "raised" /\ exc[i] = "KeyError"
        /\ pc[j] = "raised" /\ exc[j] = "KeyError"
        /\ args[i].element = args[j].element
        /\ args[i].crystallize /\ ~args[j].crystallize
        /\ IsNum(args[i].temperature) /\ IsNum(args[i].size)
        /\ IsNum(args[j].temperature) /\ IsNum(args[j].size)
        /\ args[i].element \in DOMAIN LJ_PARAMS
        /\ args[i].element \in DOMAIN CRYSTAL_STRUCTURE
        /\ args[i].element \notin DOMAIN ATOMIC_MASS

\* The simulated system the arguments of invocation i describe.
ExpectedSys(i) ==
    [symmetry |-> CRYSTAL_STRUCTURE[args[i].element].symmetry,
     a |-> IF args[i].crystallize
           THEN 8 * LJ_PARAMS[args[i].element].cutoff
           ELSE 10 * CRYSTAL_STRUCTURE[args[i].element].lattice_param,
     size |-> IF args[i].size.num >= 0 THEN args[i].size.num \div 10
              ELSE -((-args[i].size.num) \div 10),
     mass |-> ATOMIC_MASS[args[i].element]]

\* C4: once the latest of a sequence of calls has returned, each of the
\* four files holds exactly what that call wrote, and nothing of earlier
\* calls or of what was there before: stdout.txt is the file the call
\* truncated, the other three hold the system of that call.
C4_LastCallAloneDeterminesFiles ==
    \A i \in Ids :
        (pc[i] = "returned" /\ IsLatest(i)) =>
            /\ files["stdout.txt"] = <<>>
            /\ files["initial.data"] =
                  <<[by |-> i, origin |-> i, what |-> "lammps-data",
                     sys |-> ExpectedSys(i), torn |-> FALSE]>>
            /\ files["initial.gro"] =
                  <<[by |-> i, origin |-> i, what |-> "gromacs",
                     sys |-> ExpectedSys(i), torn |-> FALSE]>>
            /\ files["atom.lammpstrj"] =
                  <<[by |-> i, origin |-> i, what |-> "lammpstrj",
                     sys |-> ExpectedSys(i), frames |-> 101,
                     torn |-> FALSE]>>

C4_Witness ==
    \E i, j \in Ids :
        /\ j < i
        /\ pc[j] = "returned"
        /\ pc[i] = "returned"
        /\ IsLatest(i)
        /\ args[i].element # args[j].element
        /\ args[i].crystallize # args[j].crystallize
        /\ entry_files[i]["atom.lammpstrj"] # <<>>
        /\ entry_files[j]["stdout.txt"] # <<>>

\* C5: the variable T of the configuration is ten times the requested
\* temperature, the velocity and thermostat directives refer to that
\* variable, and the engine ends up with that value for the velocity
\* distribution and for the start and the end temperature of the thermostat.
C5_TemperatureScaledByTen ==
    \A i \in Ids :
        /\ setup[i] # None =>
              /\ setup[i].T = Num(args[i].temperature.num * 10)
              /\ setup[i].velocity_T = "$T"
              /\ setup[i].nvt_Tstart = "$T"
              /\ setup[i].nvt_Tstop = "$T"
        /\ (l[i] # None /\ l[i].configured) =>
              /\ l[i].velocity_T = Num(args[i].temperature.num * 10)
              /\ l[i].nvt_Tstart = Num(args[i].temperature.num * 10)
              /\ l[i].nvt_Tstop = Num(args[i].temperature.num * 10)

C5_Witness ==
    \E i \in Ids :
        /\ l[i] # None
        /\ l[i].configured
        /\ args[i].temperature = Num(2000)
        /\ l[i].nvt_Tstart = Num(20000)
        /\ l[i].steps = 10000

\* Invocation i holds artifacts that another invocation's engine produced,
\* or a trajectory with another writer's frames mixed in.
ForeignArtifacts(i) ==
    \/ (atoms[i] # None /\ (atoms[i].origin # i \/ atoms[i].torn))
    \/ (traj[i] # None /\ (traj[i].xyz.origin # i \/ traj[i].top.origin # i
                             \/ traj[i].xyz.torn \/ traj[i].top.torn))
    \/ (view[i] # None /\ (view[i].traj.xyz.origin # i
                             \/ view[i].traj.top.origin # i
                             \/ view[i].traj.xyz.torn
                             \/ view[i].traj.top.torn))

\* C6: the invocations share the fixed file names, so what an invocation
\* reads back is what the last writer left: it holds artifacts of another
\* invocation only if another invocation was inside simulate at the same
\* time.  (The witness is the race itself: an invocation that returns a
\* viewer built from the trajectory of an overlapping invocation made with
\* different arguments.)
C6_ForeignArtifactsOnlyWhenOverlapping ==
    \A i \in Ids : ForeignArtifacts(i) => ~alone[i]

C6_Witness ==
    \E i, j \in Ids :
        /\ i # j
        /\ args[j] # None
        /\ args[i] # args[j]
        /\ pc[i] = "returned"
        /\ view[i].traj.xyz.origin = j
        /\ view[i].traj.xyz.sys # ExpectedSys(i)

\* C7: an invocation submits the configuration at most once and issues the
\* run command at most once; if either engine call fails, the invocation
\* ends right there with that failure: nothing is read back, no viewer is
\* built, nothing is returned.
C7_EngineFailurePropagates ==
    \A i \in Ids :
        /\ Count(trace[i], "submit") <= 1
        /\ Count(trace[i], "run") <= 1
        /\ exc[i] = "EngineError" =>
              /\ pc[i] = "raised"
              /\ trace[i][Len(trace[i])] \in {"submit", "run"}
              /\ atoms[i] = None
              /\ traj[i] = None
              /\ view[i] = None

C7_Witness ==
    \E i, j \in Ids :
        /\ exc[i] = "EngineError"
        /\ trace[i][Len(trace[i])] = "submit"
        /\ exc[j] = "EngineError"
        /\ trace[j][Len(trace[j])] = "run"
        /\ l[j].steps = 5400
        /\ pc[j] = "raised"

\* C9: an invocation that has returned executed, after building the
\* configuration, exactly: submit, run, read initial.data, write
\* initial.gro, load the trajectory, build and center the viewer, restore
\* sys.stdout, return, in this order and once each; and whenever an
\* invocation has read an artifact file, its run of 10000 steps is complete.
C9_StepsInOrder ==
    \A i \in Ids :
        /\ pc[i] = "returned" =>
              trace[i] = <<"select", "save_stdout", "open_stdout",
                           "bind_stdout", "lammps", "setup",
                           "submit", "run", "read_data", "write_gro",
                           "load_traj", "show_view", "restore_stdout",
                           "return">>
        /\ (atoms[i] # None \/ topology[i] # None \/ traj[i] # None) =>
              /\ l[i].configured
              /\ l[i].steps = 10000
              /\ l[i].dumped = 101
              /\ ~l[i].error

C9_Witness ==
    \E i \in Ids :
        /\ pc[i] = "returned"
        /\ view[i] # None
        /\ view[i].centered
        /\ view[i].traj.xyz.frames = 101
        /\ sys_stdout = old_stdout[i]

\* C10: an invocation that ended with a KeyError has sent neither a
\* configuration nor a run command to the engine, and initial.data,
\* initial.gro and atom.lammpstrj are as they were when it was called.
C10_LookupFailureTouchesNoArtifact ==
    \A i \in Ids :
        exc[i] = "KeyError" =>
            /\ "submit" \notin Range(trace[i])
            /\ "run" \notin Range(trace[i])
            /\ l[i] # None => (~l[i].configured /\ ~l[i].error)
            /\ IsLatest(i) =>
                  \A f \in Artifacts : files[f] = entry_files[i][f]

C10_Witness ==
    \E i \in Ids :
        /\ exc[i] = "KeyError"
        /\ IsLatest(i)
        /\ "open_stdout" \in Range(trace[i])
        /\ l[i] # None
        /\ \A f \in Artifacts : entry_files[i][f] # <<>>

====
